---- MODULE Spec2Model ----
(***************************************************************************)
(* The bcl2fastq module of MultiQC (multiqc/modules/bcl2fastq/bcl2fastq.py) *)
(* as a state machine: MultiqcModule.__init__ gathers the json files,      *)
(* reshapes them by lane and by sample, filters ignored names, and reports.*)
(* Strings that take part in key construction are sequences of one-        *)
(* character strings, so that prepend_runid is a real concatenation.       *)
(***************************************************************************)
EXTENDS Integers, Sequences, FiniteSets, TLC

VARIABLES
  pc,                  \* position in MultiqcModule.__init__
  n_files,             \* files yielded so far by find_log_files
  myfile,              \* loop variable of the gathering loop (NoFile outside it)
  log,                 \* messages logged by the most recent step
  bcl2fastq_data,      \* self.bcl2fastq_data: runId -> lane -> lane record
  bcl2fastq_bylane,    \* self.bcl2fastq_bylane
  bcl2fastq_bysample,  \* self.bcl2fastq_bysample
  source_files,        \* self.source_files: key -> list of paths
  data_sources,        \* add_data_source calls: s_name -> set of paths
  general_stats,       \* general_stats_addcols calls (at most one)
  data_files,          \* write_data_file calls: file name -> mapping written
  sections,            \* add_section calls, in order
  parseable_data,      \* history: the tree built from the parseable files alone
  contrib,             \* history: every (runId, lane, path, ConversionResult) ingested,
                       \*          kept while no runId/lane has been repeated
  held,                \* history: per runId/lane, the contribution ingested last
  dup_seen             \* history: some runId/lane was ingested more than once

vars == <<pc, n_files, myfile, log, bcl2fastq_data, bcl2fastq_bylane,
          bcl2fastq_bysample, source_files, data_sources, general_stats,
          data_files, sections, parseable_data, contrib, held, dup_seen>>

-----------------------------------------------------------------------------
(* Bounds and input sets *)

\* Most files find_log_files yields in one pass.
MaxFiles == 2

EmptyDict == [x \in {} |-> 0]

Range(s) == {s[i] : i \in DOMAIN s}

\* The delimiter " - " of prepend_runid.
Delim == <<" ", "-", " ">>

undetermined == <<"u", "n", "d", "e", "t", "e", "r", "m", "i", "n", "e", "d">>

\* Run ids "A" and "A -", sample names "B" and "- B": none contains " - ".
RunIds == {<<"A">>, <<"A", " ", "-">>}

SampleNames == {<<"B">>, <<"-", " ", "B">>}

LaneNumbers == {1, 2}

Roots == {"run1", "run2"}

\* One DemuxResults entry; IndexMetrics lists the MismatchCounts["0"] values.
Demux(name, reads, metrics) ==
  [SampleName |-> name, NumberReads |-> reads, IndexMetrics |-> metrics]

\* The (Undetermined.NumberReads, DemuxResults) bodies a lane may report.
\* The last one repeats a sample name within the lane (not well-formed).
LaneBodies ==
  { <<0, <<>>>>,
    <<1, <<Demux(<<"B">>, 2, <<1>>)>>>>,
    <<1, <<Demux(<<"B">>, 0, <<>>)>>>>,
    <<2, <<Demux(<<"B">>, 2, <<1, 1>>), Demux(<<"-", " ", "B">>, 1, <<>>)>>>>,
    <<1, <<Demux(<<"B">>, 2, <<1>>), Demux(<<"B">>, 1, <<1>>)>>>> }

ConversionResult(n, body) ==
  [LaneNumber |-> n, Undetermined |-> [NumberReads |-> body[1]],
   DemuxResults |-> body[2]]

AllConversionResults ==
  {ConversionResult(n, b) : n \in LaneNumbers, b \in LaneBodies}

\* Files that report two lanes: a lane with one sample, then a lane with one
\* sample that has reads.
FirstOfTwo == {c \in AllConversionResults : Len(c.DemuxResults) = 1}

SecondOfTwo == {c \in FirstOfTwo : c.DemuxResults[1].NumberReads > 0}

ConversionResultLists ==
  {<<>>} \cup {<<c>> : c \in AllConversionResults}
         \cup {<<c, d>> : c \in FirstOfTwo, d \in SecondOfTwo}

Documents ==
  {[RunId |-> r, ConversionResults |-> cs] : r \in RunIds, cs \in ConversionResultLists}

\* File contents: text that json.loads rejects, or the text of a document.
NotJson == [valid |-> FALSE]

Contents == {NotJson} \cup {[valid |-> TRUE, value |-> d] : d \in Documents}

\* What find_log_files yields: root, fn and the content f.
Files == {[root |-> r, fn |-> "Stats.json", f |-> c] : r \in Roots, c \in Contents}

NoFile == [root |-> "", fn |-> "", f |-> NotJson]

-----------------------------------------------------------------------------
(* Pure helpers *)

Digit(d) == <<"0", "1", "2", "3", "4", "5", "6", "7", "8", "9">>[d + 1]

\* str() of a non-negative integer.
RECURSIVE DecStr(_)
DecStr(n) == IF n < 10 THEN <<Digit(n)>> ELSE DecStr(n \div 10) \o <<Digit(n % 10)>>

\* 'L{}'.format(conversionResult["LaneNumber"])
LaneName(n) == <<"L">> \o DecStr(n)

\* os.path.join(myfile['root'], myfile['fn'])
path_join(root, fn) == <<root, fn>>

\* Variant: the delimiter loses its spaces.
prepend_runid_dash(runId, rest) == runId \o <<"-">> \o rest

\* Lines 135-136.
prepend_runid(runId, rest) == runId \o Delim \o rest

\* d[k] = v on a dict
Put(d, k, v) == (k :> v) @@ d

-----------------------------------------------------------------------------
(* parse_file_as_json *)

\* json.loads(myfile["f"]): the document, or ValueError.
json_loads(text) ==
  IF text.valid THEN [ok |-> TRUE, content |-> text.value] ELSE [ok |-> FALSE]

\* Lines 89-91: each indexMetric adds MismatchCounts["0"] to the lane and the sample.
RECURSIVE add_index_metrics(_, _, _)
add_index_metrics(lane_rec, sample, metrics) ==
  IF metrics = <<>> THEN lane_rec
  ELSE add_index_metrics(
         [lane_rec EXCEPT !.perfectIndex = @ + Head(metrics),
                          !.samples[sample].perfectIndex = @ + Head(metrics)],
         sample, Tail(metrics))

\* Lines 85-91: one demuxResult of a lane.
add_demux_result(lane_rec, demuxResult, filename) ==
  LET sample == demuxResult.SampleName
      fresh  == [total |-> 0, perfectIndex |-> 0, filename |-> filename]
      r1 == [lane_rec EXCEPT !.samples = Put(@, sample, fresh)]
      r2 == [r1 EXCEPT !.total = @ + demuxResult.NumberReads,
                       !.samples[sample].total = @ + demuxResult.NumberReads]
  IN  add_index_metrics(r2, sample, demuxResult.IndexMetrics)

RECURSIVE add_demux_results(_, _, _)
add_demux_results(lane_rec, demuxResults, filename) ==
  IF demuxResults = <<>> THEN lane_rec
  ELSE add_demux_results(add_demux_result(lane_rec, Head(demuxResults), filename),
                         Tail(demuxResults), filename)

\* Lines 83-92: the lane record built from one conversionResult.
new_lane_record(conversionResult, filename) ==
  LET r0 == [total |-> 0, perfectIndex |-> 0, samples |-> EmptyDict]
      r1 == add_demux_results(r0, conversionResult.DemuxResults, filename)
  IN  [r1 EXCEPT !.samples =
         Put(@, undetermined,
             [total |-> conversionResult.Undetermined.NumberReads, perfectIndex |-> 0])]

\* Line 82: the debug message of a duplicate runId/lane.
duplicate_message(runId, lane) ==
  [level |-> "debug", msg |-> "Duplicate runId/lane combination found! Overwriting",
   arg |-> prepend_runid(runId, lane)]

\* Variant: line 83 does not start a repeated lane from an empty record.
add_conversion_result_merge(st, runId, conversionResult, filename) ==
  LET lane == LaneName(conversionResult.LaneNumber)
      r0 == IF lane \in DOMAIN st.run_data
            THEN st.run_data[lane]
            ELSE [total |-> 0, perfectIndex |-> 0, samples |-> EmptyDict]
      r1 == add_demux_results(r0, conversionResult.DemuxResults, filename)
      r2 == [r1 EXCEPT !.samples =
               Put(@, undetermined,
                   [total |-> conversionResult.Undetermined.NumberReads,
                    perfectIndex |-> 0])]
  IN  [run_data |-> Put(st.run_data, lane, r2),
       log |-> IF lane \in DOMAIN st.run_data
               THEN Append(st.log, duplicate_message(runId, lane))
               ELSE st.log]

\* Lines 80-92: one conversionResult; st = [run_data, log].
add_conversion_result(st, runId, conversionResult, filename) ==
  LET lane == LaneName(conversionResult.LaneNumber)
  IN  [run_data |-> Put(st.run_data, lane, new_lane_record(conversionResult, filename)),
       log |-> IF lane \in DOMAIN st.run_data
               THEN Append(st.log, duplicate_message(runId, lane))
               ELSE st.log]

RECURSIVE add_conversion_results(_, _, _, _)
add_conversion_results(st, runId, conversionResults, filename) ==
  IF conversionResults = <<>> THEN st
  ELSE add_conversion_results(
         add_conversion_result(st, runId, Head(conversionResults), filename),
         runId, Tail(conversionResults), filename)

\* Variant: the run's lane mapping is created anew for every file.
run_data_fresh(data, runId) == EmptyDict

\* Lines 76-78: the run's lane mapping, created on first sight of the runId.
run_data_of(data, runId) == IF runId \in DOMAIN data THEN data[runId] ELSE EmptyDict

\* Line 73: the warning of an unparsable file.
parse_warning(file) ==
  [level |-> "warn", msg |-> "Could not parse file as json", arg |-> file.fn]

\* Variant: an unparsable file empties the tree.
parse_file_as_json_reset(data, file) ==
  LET parsed == json_loads(file.f)
  IN  IF ~parsed.ok THEN [data |-> EmptyDict, log |-> <<parse_warning(file)>>]
      ELSE LET content == parsed.content
               runId == content.RunId
               st == add_conversion_results(
                       [run_data |-> run_data_of(data, runId), log |-> <<>>],
                       runId, content.ConversionResults,
                       path_join(file.root, file.fn))
           IN  [data |-> Put(data, runId, st.run_data), log |-> st.log]

\* parse_file_as_json(myfile) on tree `data`: the new tree and what was logged.
parse_file_as_json(data, file) ==
  LET parsed == json_loads(file.f)
  IN  IF ~parsed.ok THEN [data |-> data, log |-> <<parse_warning(file)>>]
      ELSE LET content == parsed.content
               runId == content.RunId
               st == add_conversion_results(
                       [run_data |-> run_data_of(data, runId), log |-> <<>>],
                       runId, content.ConversionResults,
                       path_join(file.root, file.fn))
           IN  [data |-> Put(data, runId, st.run_data), log |-> st.log]

\* History of the gathering loop: what each parseable file contributed.
contributions(file) ==
  IF ~file.f.valid THEN {}
  ELSE {<<file.f.value.RunId, LaneName(file.f.value.ConversionResults[i].LaneNumber),
          path_join(file.root, file.fn), file.f.value.ConversionResults[i]>> :
          i \in DOMAIN file.f.value.ConversionResults}

\* The contributions of `file` that no later ConversionResult of it replaces.
last_contributions(file) ==
  IF ~file.f.valid THEN {}
  ELSE LET cs == file.f.value.ConversionResults
       IN  {<<file.f.value.RunId, LaneName(cs[i].LaneNumber),
              path_join(file.root, file.fn), cs[i]>> :
              i \in {k \in DOMAIN cs :
                       \A j \in DOMAIN cs : j > k => cs[j].LaneNumber # cs[k].LaneNumber}}

\* Per runId/lane, the contribution ingested last.
last_write(kept, file) ==
  LET new == last_contributions(file)
  IN  {c \in kept : ~\E d \in new : d[1] = c[1] /\ d[2] = c[2]} \cup new

\* Whether ingesting `file` repeats a runId/lane (within it, or of an earlier file).
repeats_lane(seen, file) ==
  \/ \E c \in contributions(file), d \in seen : c[1] = d[1] /\ c[2] = d[2]
  \/ /\ file.f.valid
     /\ \E i, j \in DOMAIN file.f.value.ConversionResults :
          /\ i < j
          /\ file.f.value.ConversionResults[i].LaneNumber =
             file.f.value.ConversionResults[j].LaneNumber

-----------------------------------------------------------------------------
(* split_data_by_lane_and_sample; views = [bylane, bysample, source_files] *)

\* Variant: lines 107-108 assign instead of adding.
split_sample_assign(views, runId, lane_rec, sample) ==
  LET uniqSampleName == prepend_runid(runId, sample)
      new == [total |-> lane_rec.samples[sample].total,
              perfectIndex |-> lane_rec.samples[sample].perfectIndex]
      paths == IF uniqSampleName \in DOMAIN views.source_files
               THEN views.source_files[uniqSampleName]
               ELSE <<>>
  IN  [views EXCEPT
         !.bysample = Put(@, uniqSampleName, new),
         !.source_files =
            IF sample # undetermined
            THEN Put(@, uniqSampleName, Append(paths, lane_rec.samples[sample].filename))
            ELSE @]

\* Variant: lines 110-112 keep only the path of the lane seen last.
split_sample_one_path(views, runId, lane_rec, sample) ==
  LET uniqSampleName == prepend_runid(runId, sample)
      old == IF uniqSampleName \in DOMAIN views.bysample
             THEN views.bysample[uniqSampleName]
             ELSE [total |-> 0, perfectIndex |-> 0]
      new == [total |-> old.total + lane_rec.samples[sample].total,
              perfectIndex |-> old.perfectIndex + lane_rec.samples[sample].perfectIndex]
  IN  [views EXCEPT
         !.bysample = Put(@, uniqSampleName, new),
         !.source_files =
            IF sample # undetermined
            THEN Put(@, uniqSampleName, <<lane_rec.samples[sample].filename>>)
            ELSE @]

\* Lines 104-112: one sample of one lane.
split_sample(views, runId, lane_rec, sample) ==
  LET uniqSampleName == prepend_runid(runId, sample)
      old == IF uniqSampleName \in DOMAIN views.bysample
             THEN views.bysample[uniqSampleName]
             ELSE [total |-> 0, perfectIndex |-> 0]
      new == [total |-> old.total + lane_rec.samples[sample].total,
              perfectIndex |-> old.perfectIndex + lane_rec.samples[sample].perfectIndex]
      paths == IF uniqSampleName \in DOMAIN views.source_files
               THEN views.source_files[uniqSampleName]
               ELSE <<>>
  IN  [views EXCEPT
         !.bysample = Put(@, uniqSampleName, new),
         !.source_files =
            IF sample # undetermined
            THEN Put(@, uniqSampleName, Append(paths, lane_rec.samples[sample].filename))
            ELSE @]

\* Line 103: the loop over the lane's samples (dict order: any order).
RECURSIVE split_samples(_, _, _, _)
split_samples(views, runId, lane_rec, todo) ==
  IF todo = {} THEN views
  ELSE LET sample == CHOOSE x \in todo : TRUE
       IN  split_samples(split_sample(views, runId, lane_rec, sample),
                         runId, lane_rec, todo \ {sample})

\* Variant: the lane's total includes its undetermined reads.
split_lane_with_undetermined(views, runId, lane, lane_rec) ==
  LET uniqLaneName == prepend_runid(runId, lane)
      entry == [total |-> lane_rec.total + lane_rec.samples[undetermined].total,
                perfectIndex |-> lane_rec.perfectIndex,
                undetermined |-> lane_rec.samples[undetermined].total]
  IN  split_samples([views EXCEPT !.bylane = Put(@, uniqLaneName, entry)],
                    runId, lane_rec, DOMAIN lane_rec.samples)

\* Lines 97-112: one lane of one run.
split_lane(views, runId, lane, lane_rec) ==
  LET uniqLaneName == prepend_runid(runId, lane)
      entry == [total |-> lane_rec.total,
                perfectIndex |-> lane_rec.perfectIndex,
                undetermined |-> lane_rec.samples[undetermined].total]
  IN  split_samples([views EXCEPT !.bylane = Put(@, uniqLaneName, entry)],
                    runId, lane_rec, DOMAIN lane_rec.samples)

\* Line 96: the loop over a run's lanes.
RECURSIVE split_lanes(_, _, _, _)
split_lanes(views, runId, run_data, todo) ==
  IF todo = {} THEN views
  ELSE LET lane == CHOOSE x \in todo : TRUE
       IN  split_lanes(split_lane(views, runId, lane, run_data[lane]),
                       runId, run_data, todo \ {lane})

\* Line 95: the loop over the runs.
RECURSIVE split_runs(_, _, _)
split_runs(views, data, todo) ==
  IF todo = {} THEN views
  ELSE LET runId == CHOOSE x \in todo : TRUE
       IN  split_runs(split_lanes(views, runId, data[runId], DOMAIN data[runId]),
                      data, todo \ {runId})

split_data_by_lane_and_sample(data) ==
  split_runs([bylane |-> EmptyDict, bysample |-> EmptyDict, source_files |-> EmptyDict],
             data, DOMAIN data)

-----------------------------------------------------------------------------
(* Filtering, summary and report *)

EndsWith(s, suffix) ==
  /\ Len(suffix) <= Len(s)
  /\ SubSeq(s, Len(s) - Len(suffix) + 1, Len(s)) = suffix

\* config.sample_names_ignore: glob patterns "*<suffix>"; <<>> stands for "*".
IgnorePolicies ==
  { {},
    {<<>>},
    {undetermined},
    {<<" ", "-", " ", "B">>},
    {<<"L", "1">>, <<"L", "2">>} }

\* BaseMultiqcModule.ignore_samples: drop the keys a pattern matches.
ignore_samples(policy, d) ==
  LET keep == {k \in DOMAIN d : ~\E pat \in policy : EndsWith(k, pat)}
  IN  [k \in keep |-> d[k]]

\* '{0:.1f}'.format(float(100.0 * perfectIndex / total)), in tenths of a percent
\* (rounded to nearest, ties to even).
perfectPercent(perfectIndex, total) ==
  LET n == 1000 * perfectIndex
      q == n \div total
      r == n % total
  IN  IF 2 * r > total \/ (2 * r = total /\ q % 2 = 1) THEN q + 1 ELSE q

\* Variant: the division is by perfectIndex instead of total.
division_by_zero_perfect(bysample) ==
  \E key \in DOMAIN bysample : bysample[key].perfectIndex = 0

\* Line 115: the division raises ZeroDivisionError on a total of 0.
division_by_zero(bysample) == \E key \in DOMAIN bysample : bysample[key].total = 0

\* Line 115: the rows handed to general_stats_addcols.
general_stats_data(bysample) ==
  [key \in DOMAIN bysample |->
     [total |-> bysample[key].total,
      perfectPercent |-> perfectPercent(bysample[key].perfectIndex, bysample[key].total)]]

get_bar_data_from_counts(counts) ==
  [key \in DOMAIN counts |->
     LET value == counts[key]
         base == [perfect |-> value.perfectIndex,
                  imperfect |-> value.total - value.perfectIndex]
     IN  IF "undetermined" \in DOMAIN value
         THEN [perfect |-> base.perfect, imperfect |-> base.imperfect,
               undetermined |-> value.undetermined]
         ELSE base]

-----------------------------------------------------------------------------
(* State machine *)

Init ==
  /\ pc = "gather"
  /\ n_files = 0
  /\ myfile = NoFile
  /\ log = <<>>
  /\ bcl2fastq_data = EmptyDict
  /\ bcl2fastq_bylane = EmptyDict
  /\ bcl2fastq_bysample = EmptyDict
  /\ source_files = EmptyDict
  /\ data_sources = EmptyDict
  /\ general_stats = <<>>
  /\ data_files = EmptyDict
  /\ sections = <<>>
  /\ parseable_data = EmptyDict
  /\ contrib = {}
  /\ held = {}
  /\ dup_seen = FALSE

\* Lines 20-21: one iteration of the loop over find_log_files('bcl2fastq').
ParseFile ==
  /\ pc = "gather"
  /\ n_files < MaxFiles
  /\ \E file \in Files :
       LET res == parse_file_as_json(bcl2fastq_data, file)
           dup == dup_seen \/ repeats_lane(contrib, file)
       IN  /\ myfile' = file
           /\ bcl2fastq_data' = res.data
           /\ log' = res.log
           /\ parseable_data' =
                IF file.f.valid THEN parse_file_as_json(parseable_data, file).data
                ELSE parseable_data
           /\ dup_seen' = dup
           /\ contrib' = IF dup THEN {} ELSE contrib \cup contributions(file)
           /\ held' = last_write(held, file)
  /\ n_files' = n_files + 1
  /\ UNCHANGED <<pc, bcl2fastq_bylane, bcl2fastq_bysample, source_files,
                 data_sources, general_stats, data_files, sections>>

\* Lines 24-27: the end of the loop and split_data_by_lane_and_sample().
Split ==
  /\ pc = "gather"
  /\ LET views == split_data_by_lane_and_sample(bcl2fastq_data)
     IN  /\ bcl2fastq_bylane' = views.bylane
         /\ bcl2fastq_bysample' = views.bysample
         /\ source_files' = views.source_files
  /\ pc' = "split"
  /\ myfile' = NoFile
  /\ log' = <<>>
  /\ UNCHANGED <<n_files, bcl2fastq_data, data_sources, general_stats, data_files,
                 sections, parseable_data, contrib, held, dup_seen>>

\* Lines 30-31: ignore_samples on both mappings, under the configured policy.
Filter ==
  /\ pc = "split"
  /\ \E policy \in IgnorePolicies :
       /\ bcl2fastq_bylane' = ignore_samples(policy, bcl2fastq_bylane)
       /\ bcl2fastq_bysample' = ignore_samples(policy, bcl2fastq_bysample)
  /\ pc' = "filtered"
  /\ UNCHANGED <<n_files, myfile, log, bcl2fastq_data, source_files, data_sources,
                 general_stats, data_files, sections, parseable_data, contrib, held, dup_seen>>

\* Variant: line 34 with "or" in place of "and".
no_data_either ==
  Cardinality(DOMAIN bcl2fastq_bylane) = 0 \/ Cardinality(DOMAIN bcl2fastq_bysample) = 0

\* Line 34.
no_data ==
  Cardinality(DOMAIN bcl2fastq_bylane) = 0 /\ Cardinality(DOMAIN bcl2fastq_bysample) = 0

\* Lines 34-36: nothing found: log and raise UserWarning.
RaiseUserWarning ==
  /\ pc = "filtered"
  /\ no_data
  /\ log' = <<[level |-> "debug", msg |-> "Could not find any bcl2fastq data",
               arg |-> "analysis_dir"]>>
  /\ pc' = "UserWarning"
  /\ UNCHANGED <<n_files, myfile, bcl2fastq_data, bcl2fastq_bylane, bcl2fastq_bysample,
                 source_files, data_sources, general_stats, data_files, sections,
                 parseable_data, contrib, held, dup_seen>>

\* Lines 39-40: add_data_source for every key of source_files.
AddDataSources ==
  /\ pc = "filtered"
  /\ ~no_data
  /\ data_sources' = [s \in DOMAIN source_files |-> Range(source_files[s])]
  /\ pc' = "sources"
  /\ UNCHANGED <<n_files, myfile, log, bcl2fastq_data, bcl2fastq_bylane,
                 bcl2fastq_bysample, source_files, general_stats, data_files, sections,
                 parseable_data, contrib, held, dup_seen>>

\* Line 43 (114-133): add_general_stats() when no division fails.
AddGeneralStats ==
  /\ pc = "sources"
  /\ ~division_by_zero(bcl2fastq_bysample)
  /\ general_stats' = <<[data |-> general_stats_data(bcl2fastq_bysample),
                         headers |-> <<"total", "perfectPercent">>]>>
  /\ pc' = "stats"
  /\ UNCHANGED <<n_files, myfile, log, bcl2fastq_data, bcl2fastq_bylane,
                 bcl2fastq_bysample, source_files, data_sources, data_files, sections,
                 parseable_data, contrib, held, dup_seen>>

\* Line 43 (115): add_general_stats() dies of ZeroDivisionError.
RaiseZeroDivisionError ==
  /\ pc = "sources"
  /\ division_by_zero(bcl2fastq_bysample)
  /\ pc' = "ZeroDivisionError"
  /\ UNCHANGED <<n_files, myfile, log, bcl2fastq_data, bcl2fastq_bylane,
                 bcl2fastq_bysample, source_files, data_sources, general_stats,
                 data_files, sections, parseable_data, contrib, held, dup_seen>>

\* Lines 44-45: the two write_data_file calls.
WriteDataFiles ==
  /\ pc = "stats"
  /\ data_files' = Put(Put(data_files, "multiqc_bcl2fastq_bylane", bcl2fastq_bylane),
                       "multiqc_bcl2fastq_bysample", bcl2fastq_bysample)
  /\ pc' = "written"
  /\ UNCHANGED <<n_files, myfile, log, bcl2fastq_data, bcl2fastq_bylane,
                 bcl2fastq_bysample, source_files, data_sources, general_stats, sections,
                 parseable_data, contrib, held, dup_seen>>

\* Lines 48-67: the two add_section calls.
AddSections ==
  /\ pc = "written"
  /\ sections' = sections \o
       << [anchor |-> "bcl2fastq-bylane",
           plot |-> get_bar_data_from_counts(bcl2fastq_bylane)],
          [anchor |-> "bcl2fastq-bysample",
           plot |-> get_bar_data_from_counts(bcl2fastq_bysample)] >>
  /\ pc' = "done"
  /\ UNCHANGED <<n_files, myfile, log, bcl2fastq_data, bcl2fastq_bylane,
                 bcl2fastq_bysample, source_files, data_sources, general_stats,
                 data_files, parseable_data, contrib, held, dup_seen>>

Next ==
  \/ ParseFile
  \/ Split
  \/ Filter
  \/ RaiseUserWarning
  \/ AddDataSources
  \/ AddGeneralStats
  \/ RaiseZeroDivisionError
  \/ WriteDataFiles
  \/ AddSections

Spec == Init /\ [][Next]_vars

-----------------------------------------------------------------------------
(* Vocabulary of the properties *)

\* "<RunId> - <name>", written out character by character.
QualifiedKey(runId, name) == runId \o <<" ", "-", " ">> \o name

RECURSIVE SumFn(_)
SumFn(f) ==
  IF DOMAIN f = {} THEN 0
  ELSE LET x == CHOOSE y \in DOMAIN f : TRUE
       IN  f[x] + SumFn([y \in DOMAIN f \ {x} |-> f[y]])

RECURSIVE SumSeq(_)
SumSeq(q) == IF q = <<>> THEN 0 ELSE Head(q) + SumSeq(Tail(q))

\* (runId, lane, sample) for every sample entry the record tree holds.
HeldSamples ==
  UNION {UNION {{<<r, l, x>> : x \in DOMAIN bcl2fastq_data[r][l].samples} :
                l \in DOMAIN bcl2fastq_data[r]} :
         r \in DOMAIN bcl2fastq_data}

HeldLanes ==
  UNION {{<<r, l>> : l \in DOMAIN bcl2fastq_data[r]} : r \in DOMAIN bcl2fastq_data}

StoredSample(t) == bcl2fastq_data[t[1]][t[2]].samples[t[3]]

\* Sum of a count of sample x over the lanes held for run r.
RunSampleSum(r, x, count) ==
  SumFn([t \in {u \in HeldSamples : u[1] = r /\ u[3] = x} |-> StoredSample(t)[count]])

\* Sum of a count over every held sample entry whose qualified key is k.
KeySum(k, count) ==
  SumFn([t \in {u \in HeldSamples : QualifiedKey(u[1], u[3]) = k} |->
           StoredSample(t)[count]])

\* A lane of a report is well-formed when its sample names are pairwise
\* distinct and none is the synthetic "undetermined".
WellFormedLane(c) ==
  /\ \A i, j \in DOMAIN c.DemuxResults :
       i # j => c.DemuxResults[i].SampleName # c.DemuxResults[j].SampleName
  /\ \A i \in DOMAIN c.DemuxResults : c.DemuxResults[i].SampleName # undetermined

-----------------------------------------------------------------------------
(* C1 *)

\* C1 as stated: after the reshape, for every run R and every sample S held
\* for R (undetermined included), the by-sample entry under "R - S" is the
\* sum of S's total and perfectIndex over the lanes held for R.
C1_AsStated ==
  pc = "split" =>
    \A t \in HeldSamples :
      LET k == QualifiedKey(t[1], t[3])
      IN  /\ k \in DOMAIN bcl2fastq_bysample
          /\ bcl2fastq_bysample[k].total = RunSampleSum(t[1], t[3], "total")
          /\ bcl2fastq_bysample[k].perfectIndex = RunSampleSum(t[1], t[3], "perfectIndex")

\* C1 amended: after the reshape the by-sample keys are exactly the keys
\* "R - S" of the held samples, and the entry under a key is the sum of total
\* and perfectIndex over every held lane of every (R, S) that has this key;
\* so it is the sum over R's lanes alone whenever no other held (run, sample)
\* pair has the same key, and "R - undetermined" then has perfectIndex 0.
C1_BySampleSums ==
  pc = "split" =>
    /\ DOMAIN bcl2fastq_bysample = {QualifiedKey(t[1], t[3]) : t \in HeldSamples}
    /\ \A k \in DOMAIN bcl2fastq_bysample :
         /\ bcl2fastq_bysample[k].total = KeySum(k, "total")
         /\ bcl2fastq_bysample[k].perfectIndex = KeySum(k, "perfectIndex")
    /\ \A t \in HeldSamples :
         (\A u \in HeldSamples :
            QualifiedKey(u[1], u[3]) = QualifiedKey(t[1], t[3]) => u[1] = t[1] /\ u[3] = t[3])
         => LET k == QualifiedKey(t[1], t[3])
            IN  /\ bcl2fastq_bysample[k].total = RunSampleSum(t[1], t[3], "total")
                /\ bcl2fastq_bysample[k].perfectIndex =
                     RunSampleSum(t[1], t[3], "perfectIndex")
                /\ t[3] = undetermined => bcl2fastq_bysample[k].perfectIndex = 0

\* Sample "B" of run "A" held in two lanes that came from two files, and its
\* undetermined reads merged from both lanes.
C1_Witness ==
  /\ pc = "split"
  /\ <<"A">> \in DOMAIN bcl2fastq_data
  /\ \E l1, l2 \in DOMAIN bcl2fastq_data[<<"A">>] :
       /\ l1 # l2
       /\ <<"B">> \in DOMAIN bcl2fastq_data[<<"A">>][l1].samples
       /\ <<"B">> \in DOMAIN bcl2fastq_data[<<"A">>][l2].samples
       /\ bcl2fastq_data[<<"A">>][l1].samples[<<"B">>].filename #
          bcl2fastq_data[<<"A">>][l2].samples[<<"B">>].filename
  /\ bcl2fastq_bysample[QualifiedKey(<<"A">>, <<"B">>)].total = 4
  /\ bcl2fastq_bysample[QualifiedKey(<<"A">>, undetermined)].total >= 2

-----------------------------------------------------------------------------
(* C2 *)

\* C2: after the reshape, the by-lane entry of every held well-formed lane has
\* total = sum of the stored totals of its real samples, perfectIndex = sum of
\* their perfectIndex, and undetermined = the lane's Undetermined.NumberReads
\* (which is therefore not part of total).
C2_ByLaneTotals ==
  pc = "split" =>
    \A h \in held :
      WellFormedLane(h[4]) =>
        LET k == QualifiedKey(h[1], h[2])
            real == {t \in HeldSamples : t[1] = h[1] /\ t[2] = h[2] /\ t[3] # undetermined}
        IN  /\ k \in DOMAIN bcl2fastq_bylane
            /\ bcl2fastq_bylane[k].total =
                 SumFn([t \in real |-> StoredSample(t).total])
            /\ bcl2fastq_bylane[k].perfectIndex =
                 SumFn([t \in real |-> StoredSample(t).perfectIndex])
            /\ bcl2fastq_bylane[k].undetermined = h[4].Undetermined.NumberReads

\* A well-formed lane with two real samples and undetermined reads.
C2_Witness ==
  /\ pc = "split"
  /\ \E h \in held :
       /\ WellFormedLane(h[4])
       /\ Len(h[4].DemuxResults) = 2
       /\ h[4].Undetermined.NumberReads > 0
       /\ bcl2fastq_bylane[QualifiedKey(h[1], h[2])].total = 3

-----------------------------------------------------------------------------
(* C3 *)

\* Counts of a ConversionResult, straight from the report.
ReportedReads(c) == SumFn([j \in DOMAIN c.DemuxResults |-> c.DemuxResults[j].NumberReads])

ReportedPerfect(c) ==
  SumFn([j \in DOMAIN c.DemuxResults |-> SumSeq(c.DemuxResults[j].IndexMetrics)])

ReportedNames(c) == {c.DemuxResults[j].SampleName : j \in DOMAIN c.DemuxResults}

\* What a ConversionResult stores for name x: undetermined gets the lane's
\* Undetermined count, a sample the counts of its last DemuxResults entry.
Stored(c, x) ==
  IF x = undetermined
  THEN [total |-> c.Undetermined.NumberReads, perfectIndex |-> 0]
  ELSE LET j == CHOOSE i \in DOMAIN c.DemuxResults :
                  /\ c.DemuxResults[i].SampleName = x
                  /\ \A m \in DOMAIN c.DemuxResults :
                       m > i => c.DemuxResults[m].SampleName # x
       IN  [total |-> c.DemuxResults[j].NumberReads,
            perfectIndex |-> SumSeq(c.DemuxResults[j].IndexMetrics)]

\* C3: every step that ingests a parseable file leaves, for each lane the file
\* reports, exactly the record of the file's last ConversionResult for that
\* lane (counts, sample set and file path; nothing of an earlier record), one
\* duplicate message is logged per overwrite and for nothing else, and the
\* pass goes on; and the reshape shows, for every runId/lane, the counts,
\* samples and path of the contribution ingested last and of no other.
C3_LastWriteWins ==
  [][ /\ pc' = "split" =>
           /\ DOMAIN bcl2fastq_bylane' = {QualifiedKey(h[1], h[2]) : h \in held'}
           /\ \A h \in held' :
                /\ bcl2fastq_bylane'[QualifiedKey(h[1], h[2])] =
                     [total |-> ReportedReads(h[4]),
                      perfectIndex |-> ReportedPerfect(h[4]),
                      undetermined |-> h[4].Undetermined.NumberReads]
                /\ \A x \in ReportedNames(h[4]) :
                     h[3] \in Range(source_files'[QualifiedKey(h[1], x)])
           /\ LET pairs == UNION {{<<h, x>> : x \in ReportedNames(h[4]) \cup {undetermined}} :
                                     h \in held'}
                   key(p) == QualifiedKey(p[1][1], p[2])
               IN  /\ DOMAIN bcl2fastq_bysample' = {key(p) : p \in pairs}
                   /\ \A k \in DOMAIN bcl2fastq_bysample' :
                        bcl2fastq_bysample'[k].total =
                          SumFn([p \in {q \in pairs : key(q) = k} |->
                                   Stored(p[1][4], p[2]).total])
           /\ \A k \in DOMAIN source_files' :
                Range(source_files'[k]) \subseteq {h[3] : h \in held'}
      /\ (n_files' = n_files + 1 /\ myfile'.f.valid) =>
        LET r == myfile'.f.value.RunId
            cs == myfile'.f.value.ConversionResults
            path == <<myfile'.root, myfile'.fn>>
            before == IF r \in DOMAIN bcl2fastq_data THEN DOMAIN bcl2fastq_data[r] ELSE {}
            lane(i) == LaneName(cs[i].LaneNumber)
            last == {i \in DOMAIN cs :
                       \A j \in DOMAIN cs : j > i => cs[j].LaneNumber # cs[i].LaneNumber}
            overwrites == {i \in DOMAIN cs :
                             \/ lane(i) \in before
                             \/ \E j \in DOMAIN cs : j < i /\ cs[j].LaneNumber = cs[i].LaneNumber}
        IN  /\ pc' = "gather"
            /\ r \in DOMAIN bcl2fastq_data'
            /\ DOMAIN bcl2fastq_data'[r] = before \cup {lane(i) : i \in DOMAIN cs}
            /\ \A i \in last :
                 LET rec == bcl2fastq_data'[r][lane(i)]
                 IN  /\ DOMAIN rec.samples = ReportedNames(cs[i]) \cup {undetermined}
                     /\ rec.total = ReportedReads(cs[i])
                     /\ rec.perfectIndex = ReportedPerfect(cs[i])
                     /\ rec.samples[undetermined] =
                          [total |-> cs[i].Undetermined.NumberReads, perfectIndex |-> 0]
                     /\ \A x \in ReportedNames(cs[i]) : rec.samples[x].filename = path
            /\ Len(log') = Cardinality(overwrites)
            /\ \A n \in DOMAIN log' : log'[n].level = "debug"
            /\ {log'[n].arg : n \in DOMAIN log'} = {QualifiedKey(r, lane(i)) : i \in overwrites}
    ]_vars

\* The second file of a pass has just replaced a lane that an earlier file
\* reported, and the lane now holds no real sample.
C3_Witness ==
  /\ pc = "gather"
  /\ n_files = 2
  /\ myfile.f.valid
  /\ Len(myfile.f.value.ConversionResults) = 1
  /\ Len(log) = 1
  /\ log[1].level = "debug"
  /\ log[1].arg = QualifiedKey(<<"A">>, <<"L", "1">>)
  /\ DOMAIN bcl2fastq_data[<<"A">>][<<"L", "1">>].samples = {undetermined}

-----------------------------------------------------------------------------
(* C4 *)

AfterCheck == {"UserWarning", "sources", "stats", "ZeroDivisionError", "written", "done"}

\* C4: past the emptiness check the module is in the "nothing to report"
\* outcome exactly when both filtered mappings are empty, and in that outcome
\* no data source, general-statistics column, data file or section exists.
C4_NothingToReport ==
  /\ pc \in AfterCheck =>
       (pc = "UserWarning" <=>
          (DOMAIN bcl2fastq_bylane = {} /\ DOMAIN bcl2fastq_bysample = {}))
  /\ pc = "UserWarning" =>
       /\ DOMAIN data_sources = {}
       /\ general_stats = <<>>
       /\ DOMAIN data_files = {}
       /\ sections = <<>>

\* The outcome reached because the filter emptied mappings that held data.
C4_Witness ==
  /\ pc = "UserWarning"
  /\ HeldLanes # {}
  /\ DOMAIN source_files # {}

-----------------------------------------------------------------------------
(* C5 *)

\* C5: a step that ingests an unparsable file leaves the record tree as it
\* was, logs the parse warning and stays in the gathering loop; and after
\* every step the tree equals the one built from the parseable files alone.
C5_UnparsableSkipped ==
  [][ /\ (n_files' = n_files + 1 /\ ~myfile'.f.valid) =>
           /\ bcl2fastq_data' = bcl2fastq_data
           /\ Len(log') = 1
           /\ log'[1].level = "warn"
           /\ log'[1].arg = myfile'.fn
           /\ pc' = "gather"
      /\ bcl2fastq_data' = parseable_data'
    ]_vars

\* An unparsable file came after a parseable one, whose data is still there.
C5_Witness ==
  /\ pc = "gather"
  /\ n_files = 2
  /\ ~myfile.f.valid
  /\ Len(log) = 1
  /\ log[1].level = "warn"
  /\ HeldLanes # {}

-----------------------------------------------------------------------------
(* C6 *)

AfterSummary == {"stats", "ZeroDivisionError", "written", "done"}

\* C6: summarization ends in the arithmetic error exactly when the filtered
\* by-sample mapping has an entry with total 0, and in that outcome there is
\* no general-statistics row, no data file and no section.
C6_ZeroTotalIsFatal ==
  /\ pc \in AfterSummary =>
       (pc = "ZeroDivisionError" <=>
          \E k \in DOMAIN bcl2fastq_bysample : bcl2fastq_bysample[k].total = 0)
  /\ pc = "ZeroDivisionError" =>
       /\ general_stats = <<>>
       /\ DOMAIN data_files = {}
       /\ sections = <<>>

\* The error is due to an undetermined entry of 0 reads alone: every other
\* retained entry has reads.
C6_Witness ==
  /\ pc = "ZeroDivisionError"
  /\ \E k \in DOMAIN bcl2fastq_bysample : bcl2fastq_bysample[k].total > 0
  /\ \A k \in DOMAIN bcl2fastq_bysample :
       bcl2fastq_bysample[k].total = 0 =>
         \E r \in RunIds : k = QualifiedKey(r, undetermined)

-----------------------------------------------------------------------------
(* C7 *)

ContainsDelimiter(str) ==
  \E i \in 1..(Len(str) - 2) : SubSeq(str, i, i + 2) = <<" ", "-", " ">>

\* (runId, name) of the held lanes, and of the held samples.
LanePairs == {<<t[1], t[2]>> : t \in HeldLanes}

SamplePairs == {<<t[1], t[3]>> : t \in HeldSamples}

DelimiterFree(pairs) ==
  \A p \in pairs : ~ContainsDelimiter(p[1]) /\ ~ContainsDelimiter(p[2])

Injective(pairs) ==
  \A p, q \in pairs : QualifiedKey(p[1], p[2]) = QualifiedKey(q[1], q[2]) => p = q

KeyFormat ==
  /\ \A p \in LanePairs : \E n \in LaneNumbers : p[2] = <<"L">> \o DecStr(n)
  /\ DOMAIN bcl2fastq_bylane = {QualifiedKey(p[1], p[2]) : p \in LanePairs}
  /\ DOMAIN bcl2fastq_bysample = {QualifiedKey(p[1], p[2]) : p \in SamplePairs}

\* C7 as stated: after the reshape every key is "<RunId> - <name>", and
\* delimiter-free distinct (RunId, lane) and (RunId, sample) pairs have
\* distinct keys.
C7_AsStated ==
  pc = "split" =>
    /\ KeyFormat
    /\ DelimiterFree(LanePairs) => Injective(LanePairs)
    /\ DelimiterFree(SamplePairs) => Injective(SamplePairs)

\* p's run-id followed by " -" is q's run-id, and p's name is "- " followed by
\* q's name: both keys then read "<p's run-id> - - <q's name>".
Overlapping(p, q) ==
  /\ q[1] = p[1] \o <<" ", "-">>
  /\ p[2] = <<"-", " ">> \o q[2]

\* C7 amended: every key is "<RunId> - <name>"; delimiter-free distinct
\* (RunId, lane) pairs have distinct keys; delimiter-free distinct
\* (RunId, sample) pairs have distinct keys unless they overlap on the
\* delimiter's space (one run-id is the other plus " -", and the other name is
\* "- " plus this name); one name in two different runs never shares a key.
C7_KeysDistinct ==
  pc = "split" =>
    /\ KeyFormat
    /\ DelimiterFree(LanePairs) => Injective(LanePairs)
    /\ DelimiterFree(SamplePairs) =>
         \A p, q \in SamplePairs :
           QualifiedKey(p[1], p[2]) = QualifiedKey(q[1], q[2]) =>
             p = q \/ Overlapping(p, q) \/ Overlapping(q, p)
    /\ \A p, q \in LanePairs \cup SamplePairs :
         (p[2] = q[2] /\ p[1] # q[1]) =>
           QualifiedKey(p[1], p[2]) # QualifiedKey(q[1], q[2])

\* Lane L1 and sample "B" are held for both runs, under four separate keys.
C7_Witness ==
  /\ pc = "split"
  /\ \A r \in RunIds :
       /\ r \in DOMAIN bcl2fastq_data
       /\ <<"L", "1">> \in DOMAIN bcl2fastq_data[r]
       /\ <<"B">> \in DOMAIN bcl2fastq_data[r][<<"L", "1">>].samples
       /\ QualifiedKey(r, <<"L", "1">>) \in DOMAIN bcl2fastq_bylane
       /\ QualifiedKey(r, <<"B">>) \in DOMAIN bcl2fastq_bysample
  /\ Cardinality(DOMAIN bcl2fastq_bylane) = 2
  /\ Cardinality(DOMAIN bcl2fastq_bysample) = 4

-----------------------------------------------------------------------------
(* C8 *)

\* The held entries of real (non-undetermined) samples.
RealSamples == {t \in HeldSamples : t[3] # undetermined}

\* C8 as stated: after the reshape, for every run R and name S, "R - S" is a
\* key of the source-file index exactly when S is a real sample of a held
\* lane of R; its paths are the files of those lanes, one element per lane.
C8_AsStated ==
  pc = "split" =>
    \A r \in RunIds, x \in SampleNames \cup {undetermined} :
      LET k == QualifiedKey(r, x)
          lanes == {t \in RealSamples : t[1] = r /\ t[3] = x}
      IN  /\ k \in DOMAIN source_files <=> lanes # {}
          /\ k \in DOMAIN source_files =>
               /\ Range(source_files[k]) = {StoredSample(t).filename : t \in lanes}
               /\ Len(source_files[k]) = Cardinality(lanes)

\* C8 amended: after the reshape the keys of the source-file index are exactly
\* the keys "R - S" of the real samples S of held lanes of R; under a key are
\* the files of every held lane of every (R, S) with that key, one element per
\* lane, each being the file of the lane record that survived; the key of an
\* undetermined pseudo-sample is present only if a real sample has the same key.
C8_SourceFileIndex ==
  pc = "split" =>
    /\ DOMAIN source_files = {QualifiedKey(t[1], t[3]) : t \in RealSamples}
    /\ \A k \in DOMAIN source_files :
         LET lanes == {t \in RealSamples : QualifiedKey(t[1], t[3]) = k}
         IN  /\ Range(source_files[k]) = {StoredSample(t).filename : t \in lanes}
             /\ Len(source_files[k]) = Cardinality(lanes)
             /\ Range(source_files[k]) =
                  {h[3] : h \in {g \in held :
                     \E x \in ReportedNames(g[4]) :
                       x # undetermined /\ QualifiedKey(g[1], x) = k}}
    /\ \A t \in HeldSamples :
         (t[3] = undetermined /\ QualifiedKey(t[1], t[3]) \in DOMAIN source_files) =>
           \E u \in RealSamples : QualifiedKey(u[1], u[3]) = QualifiedKey(t[1], t[3])

\* Sample "B" of run "A" has two list elements, from two different files.
C8_Witness ==
  /\ pc = "split"
  /\ QualifiedKey(<<"A">>, <<"B">>) \in DOMAIN source_files
  /\ Len(source_files[QualifiedKey(<<"A">>, <<"B">>)]) = 2
  /\ Cardinality(Range(source_files[QualifiedKey(<<"A">>, <<"B">>)])) = 2
  /\ QualifiedKey(<<"A">>, undetermined) \in DOMAIN bcl2fastq_bysample

-----------------------------------------------------------------------------
(* C9 *)

Exported == {"sources", "stats", "ZeroDivisionError", "written", "done"}

\* C9: once data sources are registered, every sample that has one is a key
\* of the filtered by-sample mapping.
C9_SourcesFiltered ==
  pc \in Exported => DOMAIN data_sources \subseteq DOMAIN bcl2fastq_bysample

-----------------------------------------------------------------------------
(* C10 *)

\* (contribution, name) for every name of every contribution ingested.
ContribSamples ==
  UNION {{<<h, x>> : x \in ReportedNames(h[4]) \cup {undetermined}} : h \in contrib}

ContribKey(p) == QualifiedKey(p[1][1], p[2])

\* C10: when no runId/lane was ingested twice, the views after the reshape
\* are a function of the set of contributions alone (whatever their order):
\* the by-lane and by-sample keys and counts, and the paths per key.
C10_OrderIndependent ==
  (pc = "split" /\ ~dup_seen) =>
    /\ bcl2fastq_bylane =
         [k \in {QualifiedKey(h[1], h[2]) : h \in contrib} |->
            LET h == CHOOSE g \in contrib : QualifiedKey(g[1], g[2]) = k
            IN  [total |-> ReportedReads(h[4]),
                 perfectIndex |-> ReportedPerfect(h[4]),
                 undetermined |-> h[4].Undetermined.NumberReads]]
    /\ bcl2fastq_bysample =
         [k \in {ContribKey(p) : p \in ContribSamples} |->
            LET same == {p \in ContribSamples : ContribKey(p) = k}
            IN  [total |-> SumFn([p \in same |-> Stored(p[1][4], p[2]).total]),
                 perfectIndex |->
                   SumFn([p \in same |-> Stored(p[1][4], p[2]).perfectIndex])]]
    /\ [k \in DOMAIN source_files |-> Range(source_files[k])] =
         [k \in {ContribKey(p) : p \in {q \in ContribSamples : q[2] # undetermined}} |->
            {p[1][3] : p \in {q \in ContribSamples :
                                q[2] # undetermined /\ ContribKey(q) = k}}]

\* Two files of one run, from two directories, each reporting another lane.
C10_Witness ==
  /\ pc = "split"
  /\ ~dup_seen
  /\ n_files = 2
  /\ \E g, h \in contrib :
       /\ g[1] = h[1]
       /\ g[2] # h[2]
       /\ g[3] # h[3]
       /\ Len(g[4].DemuxResults) > 0
       /\ Len(h[4].DemuxResults) > 0

====
